---------------------------- MODULE Spec2Model ----------------------------
(***************************************************************************)
(* A state-machine model of rag_run.py: the module-level ingestion pass    *)
(* that reconciles foods.json against the persistent Chroma collection,    *)
(* and the Tk shell whose Ask handler runs the retrieval-augmented answer  *)
(* pipeline on a worker thread.                                            *)
(*                                                                         *)
(* Strings are modelled as sequences of tokens, so that concatenation,     *)
(* strip() and join() are computed and not assumed.  A process run is one  *)
(* execution of the script; the collection outlives the runs.              *)
(***************************************************************************)
EXTENDS Integers, Sequences, FiniteSets

(***************************************************************************)
(* Bounds of the model.                                                    *)
(***************************************************************************)
\* How many times in all the user starts the script or submits the question
\* entry, blank or not.
MaxEvents == 3

(***************************************************************************)
(* Program constants.                                                      *)
(***************************************************************************)
\* n_results of collection.query
NResults == 3

\* The three failure kinds the except clauses tell apart.
FailureKinds == {"ConnectionError", "Timeout", "Exception"}

\* Vectors the embedding service answers with.  They are opaque to the
\* program, which branches on none of them; the service computes the vector
\* from the text alone.
ServiceVector(text) == 1 + (Len(text) % 2)

\* Completions the generation service may answer with, before .strip().
Completions == {<<" ", "Sushi.", "\n">>}

\* What the user may have typed into the question entry.
TypedQuestions == {<<>>, <<" ", " ">>, <<" ", "What is sushi?", " ">>}

Whitespace == {" ", "\n", "\t"}

(***************************************************************************)
(* The corpus file.  "region" and "type" are optional keys of a record.    *)
(***************************************************************************)
FoodUniverse ==
    << [id |-> "a1", text |-> <<"Sushi is a Japanese dish.">>,
        region |-> "Japan", type |-> "seafood"],
       [id |-> "a2", text |-> <<"Pizza is baked.">>, region |-> "Italy"],
       [id |-> "a3", text |-> <<"Bread.">>],
       [id |-> "a4", text |-> <<"Baklava is sweet.">>, type |-> "dessert"] >>

\* The corpora foods.json may hold: none, two or all of the records.  Ids
\* are unique across a corpus.
Corpora == { SubSeq(FoodUniverse, 1, n) : n \in {0, 2, Len(FoodUniverse)} }

\* What chroma_db may hold before the first run: nothing, an entry of the
\* corpus left by an earlier ingestion, an entry foreign to the corpus.
InitialCollections ==
    { <<>>,
      << [id |-> "a1", document |-> <<"Sushi is a Japanese dish.">>,
          embedding |-> 1] >>,
      << [id |-> "z9", document |-> <<"Tea.">>, embedding |-> 2] >> }

(***************************************************************************)
(* State.                                                                  *)
(***************************************************************************)
VARIABLES
    food_data,      \* the content of foods.json (never written)
    collection,     \* the persistent Chroma collection, in insertion order
    events,         \* how many times the script was started or the entry submitted
    phase,          \* where the main thread of the current run is
    existing_ids,   \* line 53
    new_items,      \* line 54
    pos,            \* the position of the ingestion loop in new_items
    embedLog,       \* history: texts the ingestion passed to get_embedding
    addLog,         \* history: ids the ingestion passed to collection.add
    console,        \* history: what this run printed last
    priorDone,      \* history: an ingestion completed in an earlier run
    doneCollection, \* history: << the collection when an ingestion last
                    \* completed >>, or << >> when none has
    cutRuns,        \* history: ingestion passes that were interrupted
    cutAdds,        \* history: inserts made by the interrupted passes
    window,         \* which Tk root exists: 0 none, 1 the first, 2 the second
    question_entry, \* the text of the question entry
    ask_btn,        \* the state of the Ask button
    status_label,   \* the text of the status label
    output_text,    \* the output pane: the blocks inserted so far
    threads         \* the worker threads started by this run

ingestVars == << existing_ids, new_items, pos, embedLog, addLog >>
histVars == << priorDone, doneCollection, cutRuns, cutAdds >>
widgetVars == << question_entry, ask_btn, status_label, output_text >>
guiVars == << window, widgetVars, threads >>

vars == << food_data, collection, events, phase, ingestVars, console, histVars,
           guiVars >>

\* The worker threads one run can start: every run takes one event itself.
Threads == 1..(MaxEvents - 1)

(***************************************************************************)
(* Pure helpers.                                                           *)
(***************************************************************************)
Min(a, b) == IF a < b THEN a ELSE b

Ids(coll) == { coll[i].id : i \in DOMAIN coll }

\* Lines 60-64: the text handed to the embedding client.
EnrichedText(item) ==
    LET t0 == item.text
        t1 == IF "region" \in DOMAIN item
              THEN t0 \o <<" This food is popular in ", item.region, ".">>
              ELSE t0
    IN  IF "type" \in DOMAIN item
        THEN t1 \o <<" It is a type of ", item.type, ".">>
        ELSE t1

\* A variant of StoredDocument that stores what was embedded.
StoredEnriched(item) == EnrichedText(item)

\* Line 69: the document stored for a record.
StoredDocument(item) == item.text

\* A variant of NewItems without the filter on the ids already held.
NewItemsUnfiltered(data, ids) == data

\* Line 54: the records whose id the collection does not hold yet.
NewItems(data, ids) == SelectSeq(data, LAMBDA item : item.id \notin ids)

\* Lines 68-72: collection.add of one entry.  Chroma leaves an id it already
\* holds untouched; the ingestion never offers one.
CollectionAdd(coll, item, emb) ==
    IF item.id \in Ids(coll) THEN coll
    ELSE Append(coll, [id |-> item.id, document |-> StoredDocument(item),
                       embedding |-> emb])

\* The distance Chroma ranks by (squared L2 is its default).
Distance(a, b) == (a - b) * (a - b)

\* Whether the entry at position i ranks before the one at position j for
\* the query vector q: it is nearer, or as near and inserted earlier.
Before(coll, q, i, j) ==
    LET di == Distance(coll[i].embedding, q)
        dj == Distance(coll[j].embedding, q)
    IN  di < dj \/ (di = dj /\ i < j)

\* The position in coll of the entry of rank r (1 is the nearest).
AtRank(coll, q, r) ==
    CHOOSE i \in DOMAIN coll :
        Cardinality({ j \in DOMAIN coll : Before(coll, q, j, i) }) = r - 1

\* Line 139: collection.query(query_embeddings=[q], n_results=k).  Chroma
\* answers with the entries it holds when it holds fewer than k, nearest
\* first.
CollectionQuery(coll, q, k) ==
    LET m == Min(Len(coll), k)
    IN  [ids |-> [r \in 1..m |-> coll[AtRank(coll, q, r)].id],
         documents |-> [r \in 1..m |-> coll[AtRank(coll, q, r)].document]]

\* A variant of Strip that leaves the string as it is.
Unstripped(s) == s

\* str.strip(): leading and trailing whitespace removed.
RECURSIVE LStrip(_)
LStrip(s) ==
    IF s # <<>> /\ Head(s) \in Whitespace THEN LStrip(Tail(s)) ELSE s

RECURSIVE RStrip(_)
RStrip(s) ==
    IF s # <<>> /\ s[Len(s)] \in Whitespace
    THEN RStrip(SubSeq(s, 1, Len(s) - 1))
    ELSE s

Strip(s) == RStrip(LStrip(s))

\* "\n".join(docs)
RECURSIVE Join(_)
Join(docs) ==
    IF docs = <<>> THEN <<>>
    ELSE IF Len(docs) = 1 THEN docs[1]
    ELSE docs[1] \o <<"\n">> \o Join(Tail(docs))

\* A variant of BuildOutput that labels every source with the first id.
BuildOutputFirstId(question, top_ids, top_docs) ==
    [question |-> question,
     sources |-> [i \in DOMAIN top_docs |-> << top_ids[1], top_docs[i] >>]]

\* Lines 146-156: the header and the retrieved sources of the output.
BuildOutput(question, top_ids, top_docs) ==
    [question |-> question,
     sources |-> [i \in DOMAIN top_docs |-> << top_ids[i], top_docs[i] >>]]

\* A variant of BuildPrompt that lists the context from the last source to
\* the first.
BuildPromptReranked(question, top_docs) ==
    <<"Use the following context to answer the question.\n\nContext:\n">>
    \o Join([i \in DOMAIN top_docs |-> top_docs[Len(top_docs) + 1 - i]])
    \o <<"\n\nQuestion: ">> \o question \o <<"\nAnswer:">>

\* Lines 159-167: the prompt of the generation request.
BuildPrompt(question, top_docs) ==
    <<"Use the following context to answer the question.\n\nContext:\n">>
    \o Join(top_docs) \o <<"\n\nQuestion: ">> \o question \o <<"\nAnswer:">>

\* A worker thread that has not been started, and the locals of one that
\* has returned.
NoLocals ==
    [question |-> <<>>, q_emb |-> 0, top_ids |-> <<>>, top_docs |-> <<>>,
     output |-> <<>>, prompt |-> <<>>]

IdleThread ==
    [pc |-> "idle", win |-> 0, locals |-> NoLocals, calls |-> <<>>,
     fail |-> "none", dialog |-> "none", printed |-> "none"]

(***************************************************************************)
(* Initial state: the script has not been started yet.                     *)
(***************************************************************************)
Init ==
    /\ food_data \in Corpora
    /\ collection \in InitialCollections
    /\ events = 0
    /\ phase = "down"
    /\ existing_ids = {}
    /\ new_items = <<>>
    /\ pos = 1
    /\ embedLog = <<>>
    /\ addLog = <<>>
    /\ console = "none"
    /\ priorDone = FALSE
    /\ doneCollection = <<>>
    /\ cutRuns = 0
    /\ cutAdds = 0
    /\ window = 0
    /\ question_entry = <<>>
    /\ ask_btn = "destroyed"
    /\ status_label = "destroyed"
    /\ output_text = <<>>
    /\ threads = [t \in Threads |-> IdleThread]

Stopped == phase \in {"down", "aborted", "crashed", "exited"}

\* Lines 25-54: the script starts, loads the corpus, opens the collection
\* and computes the records to add.
Load ==
    /\ Stopped
    /\ events < MaxEvents
    /\ events' = events + 1
    /\ phase' = "ingest"
    /\ existing_ids' = Ids(collection)
    /\ new_items' = NewItems(food_data, Ids(collection))
    /\ pos' = 1
    /\ embedLog' = <<>>
    /\ addLog' = <<>>
    /\ console' = "none"
    /\ threads' = [t \in Threads |-> IdleThread]
    /\ priorDone' = (doneCollection # <<>>)
    /\ UNCHANGED << food_data, collection, doneCollection, cutRuns, cutAdds,
                    window, widgetVars >>

\* Lines 33-50: what a call of get_embedding may come to.  It either returns
\* the vector of the service, or prints the message of the failure kind and
\* raises SystemExit through sys.exit(1); it never raises the failure itself.
get_embedding(text) ==
    { [exit |-> FALSE, embedding |-> ServiceVector(text), printed |-> "none"] }
    \cup
    { [exit |-> TRUE, embedding |-> 0, printed |-> k] : k \in FailureKinds }

\* A variant of ExitDuringIngestion that undoes the inserts of the run
\* before it leaves.
ExitWithRollback(r) ==
    /\ console' = r.printed
    /\ phase' = "aborted"
    /\ cutRuns' = cutRuns + 1
    /\ cutAdds' = cutAdds + Len(addLog)
    /\ collection' = SubSeq(collection, 1, Len(collection) - Len(addLog))
    /\ UNCHANGED << addLog, pos >>

\* A variant of ExitDuringIngestion that gives up the record and goes on
\* with the next one.
SkipRecord(r) ==
    /\ console' = r.printed
    /\ pos' = pos + 1
    /\ UNCHANGED << phase, cutRuns, cutAdds, collection, addLog >>

\* Lines 41-50 reached from line 66: get_embedding has printed its message
\* and SystemExit, raised on the main thread, ends the process with status
\* 1.  The collection keeps what the run has added.
ExitDuringIngestion(r) ==
    /\ console' = r.printed
    /\ phase' = "aborted"
    /\ cutRuns' = cutRuns + 1
    /\ cutAdds' = cutAdds + Len(addLog)
    /\ UNCHANGED << collection, addLog, pos >>

\* Lines 56-72: one iteration of the ingestion loop.
IngestItem ==
    /\ phase = "ingest"
    /\ pos <= Len(new_items)
    /\ LET item == new_items[pos]
           enriched_text == EnrichedText(item)
       IN  \E r \in get_embedding(enriched_text) :
             /\ embedLog' = Append(embedLog, enriched_text)
             /\ IF r.exit
                THEN ExitDuringIngestion(r)
                ELSE /\ collection' = CollectionAdd(collection, item, r.embedding)
                     /\ addLog' = Append(addLog, item.id)
                     /\ pos' = pos + 1
                     /\ console' = "Adding new documents to Chroma..."
                     /\ UNCHANGED << phase, cutRuns, cutAdds >>
    /\ UNCHANGED << food_data, events, existing_ids, new_items, priorDone,
                    doneCollection, guiVars >>

\* Lines 56 and 73-74: the loop has no record left, or there was none.
IngestEnd ==
    /\ phase = "ingest"
    /\ pos > Len(new_items)
    /\ phase' = "ingested"
    /\ console' = IF new_items = <<>>
                  THEN "All documents already in ChromaDB."
                  ELSE console
    /\ doneCollection' = << collection >>
    /\ UNCHANGED << food_data, collection, events, ingestVars, priorDone,
                    cutRuns, cutAdds, guiVars >>

\* The process is killed while it ingests (power loss, Ctrl-C, kill).
Crash ==
    /\ phase = "ingest"
    /\ phase' = "crashed"
    /\ cutRuns' = cutRuns + 1
    /\ cutAdds' = cutAdds + Len(addLog)
    /\ UNCHANGED << food_data, collection, events, ingestVars, console,
                    priorDone, doneCollection, guiVars >>

(***************************************************************************)
(* The Tk shell.                                                           *)
(***************************************************************************)
backVars == << food_data, collection, ingestVars, console, histVars >>

\* The widgets of a freshly built RAGEditorApp (lines 79-114).
NewWidgets ==
    /\ question_entry' = <<>>
    /\ ask_btn' = "normal"
    /\ status_label' = "Ready"
    /\ output_text' = <<>>

\* No window exists: the widgets are gone.
NoWidgets ==
    /\ question_entry' = <<>>
    /\ ask_btn' = "destroyed"
    /\ status_label' = "destroyed"
    /\ output_text' = <<>>

\* Lines 222-224: the first window is built and its event loop entered.
StartGUI ==
    /\ phase = "ingested"
    /\ phase' = "gui"
    /\ window' = 1
    /\ NewWidgets
    /\ UNCHANGED << backVars, events, threads >>

\* The user edits the question entry.
TypeQuestion ==
    /\ phase = "gui"
    /\ \E s \in TypedQuestions :
         /\ s # question_entry
         /\ question_entry' = s
    /\ UNCHANGED << backVars, events, phase, window, ask_btn, status_label,
                    output_text, threads >>

\* The worker thread the next threading.Thread(...) call creates.
FreeThread == CHOOSE t \in Threads :
                 /\ threads[t].pc = "idle"
                 /\ \A u \in Threads : u < t => threads[u].pc # "idle"

\* Lines 116-129: ask_question, run by a click on the Ask button (which Tk
\* delivers only while the button is not disabled) or by <Return> in the
\* question entry (line 92).  The warning box of line 119 is closed before
\* the handler returns and leaves no state behind.
ask_question(via) ==
    /\ phase = "gui"
    /\ via = "click" => ask_btn = "normal"
    /\ events < MaxEvents
    /\ events' = events + 1
    /\ LET question == Strip(question_entry)
       IN  IF question = <<>>
           THEN UNCHANGED << widgetVars, threads >>
           ELSE /\ ask_btn' = "disabled"
                /\ status_label' =
                     "Processing... retrieving documents and generating answer"
                /\ threads' = [threads EXCEPT ![FreeThread] =
                     [IdleThread EXCEPT
                        !.pc = "embed", !.win = window,
                        !.locals = [NoLocals EXCEPT !.question = question]]]
                /\ UNCHANGED << question_entry, output_text >>
    /\ UNCHANGED << backVars, phase, window >>

\* Whether the widgets thread t holds still exist.  A Tk call on a destroyed
\* widget raises TclError.
WidgetsAlive(t) == phase = "gui" /\ threads[t].win = window

\* A thread whose call raised e inside the try block: the except clause of
\* e's kind opens its message box (lines 192-194, 197-198, 201-202).
Caught(th, e, kind) ==
    [th EXCEPT !.pc = "dialog", !.fail = e, !.dialog = kind]

\* A thread that has ended: its locals and its hold on the widgets are gone.
Ended(th, pc) == [th EXCEPT !.pc = pc, !.win = 0, !.locals = NoLocals]

\* Lines 133-136: the status is set and the question embedded.  SystemExit
\* is no Exception: no except clause of _process_question catches it, and
\* threading ends the thread without a word.
WEmbed(t) ==
    /\ threads[t].pc = "embed"
    /\ LET th == threads[t]
       IN  IF ~WidgetsAlive(t)
           THEN /\ threads' = [threads EXCEPT
                                 ![t] = Caught(th, "TclError", "Exception")]
                /\ UNCHANGED status_label
           ELSE /\ status_label' = "Getting embedding..."
                /\ \E r \in get_embedding(th.locals.question) :
                     threads' = [threads EXCEPT ![t] =
                       IF r.exit
                       THEN Ended([th EXCEPT !.calls = Append(@, "embed"),
                                             !.fail = r.printed,
                                             !.printed = r.printed], "dead")
                       ELSE [th EXCEPT !.calls = Append(@, "embed"),
                                       !.locals.q_emb = r.embedding,
                                       !.pc = "query"]]
    /\ UNCHANGED << backVars, events, phase, window, question_entry, ask_btn,
                    output_text >>

\* The block of the output pane made of the output built by thread t.
Block(t, output, answer) ==
    [thread |-> t, question |-> output.question, sources |-> output.sources,
     answer |-> answer]

\* A variant of PaneAfterQuery that shows the sources as soon as they are
\* retrieved.
PaneWithSources(pane, t, output) == Append(pane, Block(t, output, <<>>))

\* Lines 145-156 build the output in a local: the pane is not touched
\* before line 186.
PaneAfterQuery(pane, t, output) == pane

\* A variant of CollectionAfterQuery that files the question in the
\* collection.
CollectionWithQuestion(coll, question, q_emb) ==
    Append(coll, [id |-> "question", document |-> question,
                  embedding |-> q_emb])

\* Line 139: collection.query reads the collection and writes nothing.
CollectionAfterQuery(coll, question, q_emb) == coll

\* Lines 138-171: the collection is queried, the output and the prompt are
\* built, the status is set.
WQuery(t) ==
    /\ threads[t].pc = "query"
    /\ LET th == threads[t]
           results == CollectionQuery(collection, th.locals.q_emb, NResults)
           top_docs == results.documents
           top_ids == results.ids
           queried == [th EXCEPT
              !.calls = Append(@, "query"),
              !.locals.top_docs = top_docs,
              !.locals.top_ids = top_ids,
              !.locals.output =
                  BuildOutput(th.locals.question, top_ids, top_docs),
              !.locals.prompt = BuildPrompt(th.locals.question, top_docs)]
       IN  /\ collection' = CollectionAfterQuery(collection,
                                 th.locals.question, th.locals.q_emb)
           /\ output_text' = PaneAfterQuery(output_text, t,
                                            queried.locals.output)
           /\ IF ~WidgetsAlive(t)
              THEN /\ threads' = [threads EXCEPT
                         ![t] = Caught(queried, "TclError", "Exception")]
                   /\ UNCHANGED status_label
              ELSE /\ threads' = [threads EXCEPT
                         ![t] = [queried EXCEPT !.pc = "generate"]]
                   /\ status_label' = "Generating answer from LLM..."
    /\ UNCHANGED << food_data, ingestVars, console, histVars, events, phase,
                    window, question_entry, ask_btn >>

\* What the generation request of lines 173-179 may come to.
generate(prompt) ==
    { [ok |-> TRUE, response |-> c, raised |-> "none"] : c \in Completions }
    \cup
    { [ok |-> FALSE, response |-> <<>>, raised |-> k] : k \in FailureKinds }

\* A variant of GenerateFailed that sends the request again.
GenerateRetried(t, th, g) ==
    /\ threads' = [threads EXCEPT ![t] = th]
    /\ UNCHANGED widgetVars

\* Lines 192-204: the request of line 173 raised; the except clause of its
\* kind takes over and nothing is sent again.
GenerateFailed(t, th, g) ==
    /\ threads' = [threads EXCEPT ![t] = Caught(th, g.raised, g.raised)]
    /\ UNCHANGED widgetVars

\* Lines 173-190, and the except clause the request's failure selects.
WGenerate(t) ==
    /\ threads[t].pc = "generate"
    /\ LET th == [threads[t] EXCEPT !.calls = Append(@, "generate")]
       IN  \E g \in generate(th.locals.prompt) :
             IF ~g.ok
             THEN GenerateFailed(t, th, g)
             ELSE LET answer == Strip(g.response)
                      output == Block(t, th.locals.output, answer)
                  IN  IF ~WidgetsAlive(t)
                      THEN /\ threads' = [threads EXCEPT
                                 ![t] = Caught(th, "TclError", "Exception")]
                           /\ UNCHANGED widgetVars
                      ELSE /\ output_text' = Append(output_text, output)
                           /\ status_label' = "Ready"
                           /\ question_entry' = <<>>
                           /\ ask_btn' = "normal"
                           /\ threads' = [threads EXCEPT ![t] = Ended(th, "done")]
    /\ UNCHANGED << backVars, events, phase, window >>

\* The status text of the except clause (lines 195, 199, 203).
ErrorStatus(kind) ==
    IF kind = "ConnectionError" THEN "Error - Connection failed"
    ELSE IF kind = "Timeout" THEN "Error - Request timeout"
    ELSE "Error - unexpected"

\* The user closes the message box of an except clause, which then sets the
\* status and enables the Ask button (lines 195-196, 199-200, 203-204).  On
\* destroyed widgets the clause raises TclError itself and the thread ends.
DismissDialog(t) ==
    /\ threads[t].pc = "dialog"
    /\ threads' = [threads EXCEPT ![t] = Ended(@, "failed")]
    /\ IF WidgetsAlive(t)
       THEN /\ status_label' = ErrorStatus(threads[t].dialog)
            /\ ask_btn' = "normal"
       ELSE UNCHANGED << status_label, ask_btn >>
    /\ UNCHANGED << backVars, events, phase, window, question_entry,
                    output_text >>

\* Lines 206-208.
clear_output ==
    /\ phase = "gui"
    /\ output_text' = <<>>
    /\ status_label' = "Output cleared"
    /\ UNCHANGED << backVars, events, phase, window, question_entry, ask_btn,
                    threads >>

\* The user closes the window: root.mainloop() returns.  After the first
\* window (line 225) the script goes on to lines 227-375, which define the
\* class again and build and run a second window; after the second one the
\* main thread is at its end.
CloseWindow ==
    /\ phase = "gui"
    /\ IF window = 1
       THEN /\ window' = 2
            /\ NewWidgets
            /\ UNCHANGED phase
       ELSE /\ window' = 0
            /\ phase' = "finishing"
            /\ NoWidgets
    /\ UNCHANGED << backVars, events, threads >>

Running(t) == threads[t].pc \in {"embed", "query", "generate", "dialog"}

\* The interpreter waits for the worker threads, which are not daemons,
\* and the process ends.
ProcessExit ==
    /\ phase = "finishing"
    /\ \A t \in Threads : ~Running(t)
    /\ phase' = "exited"
    /\ UNCHANGED << backVars, events, guiVars >>

Next ==
    \/ Load
    \/ IngestItem
    \/ IngestEnd
    \/ Crash
    \/ StartGUI
    \/ TypeQuestion
    \/ \E via \in {"click", "return"} : ask_question(via)
    \/ \E t \in Threads : WEmbed(t)
    \/ \E t \in Threads : WQuery(t)
    \/ \E t \in Threads : WGenerate(t)
    \/ \E t \in Threads : DismissDialog(t)
    \/ clear_output
    \/ CloseWindow
    \/ ProcessExit

Spec == Init /\ [][Next]_vars

(***************************************************************************)
(* Properties.                                                             *)
(***************************************************************************)
\* The ingestion pass of the current run has run to its end.
IngestComplete == phase \in {"ingested", "gui", "finishing", "exited"}

CorpusIds == { food_data[i].id : i \in DOMAIN food_data }

SeqSet(q) == { q[i] : i \in DOMAIN q }

\* C1: once an ingestion pass has completed, a later run of the script on
\* the same corpus and collection makes no call of the embedding client and
\* no insert, does not exit on an error, and leaves the collection as the
\* completed pass left it.
IdempotentIngestion ==
    priorDone =>
        /\ embedLog = <<>>
        /\ addLog = <<>>
        /\ new_items = <<>>
        /\ phase # "aborted"
        /\ doneCollection = << collection >>

\* A second pass has completed over a collection that holds the corpus and
\* an entry that is not of the corpus, and reported that nothing was to add.
IdempotentIngestionWitness ==
    /\ priorDone
    /\ phase = "ingested"
    /\ Len(food_data) = 4
    /\ Len(collection) = 5
    /\ console = "All documents already in ChromaDB."

\* C2: after interrupted passes, the pass that completes inserts exactly the
\* records whose ids the collection did not hold when the run started, each
\* once and none that was held, and every id of the corpus is then in the
\* collection exactly once.
IngestionConverges ==
    (cutRuns >= 1 /\ IngestComplete) =>
        /\ SeqSet(addLog) = CorpusIds \ existing_ids
        /\ Len(addLog) = Cardinality(SeqSet(addLog))
        /\ \A id \in CorpusIds :
             Cardinality({ i \in DOMAIN collection : collection[i].id = id }) = 1

\* Two passes were interrupted, each after an insert, and a third one has
\* completed and inserted the rest.
IngestionConvergesWitness ==
    /\ cutRuns = 2
    /\ cutAdds >= 2
    /\ phase = "ingested"
    /\ addLog # <<>>
    /\ Len(addLog) < Len(food_data)

\* C3: a failure of kind K of the embedding client or of the generation
\* client during an answer request reaches the except clause of kind K of
\* the request, whose message box tells the user.
FailureSurfaced ==
    \A t \in Threads :
        threads[t].fail \in FailureKinds => threads[t].dialog = threads[t].fail

\* C4: when a client failure has ended an answer request and no request is
\* in progress any more, the Ask button is not left disabled.
RetryableAfterFailure ==
    ( /\ \E t \in Threads : threads[t].fail \in FailureKinds
      /\ \A t \in Threads : ~Running(t) )
    => ask_btn # "disabled"

\* The text the embedding client is to receive for a record: the text, then
\* the region clause if there is a region, then the type clause if there is
\* a type.
ExpectedEmbedInput(item) ==
    item.text
    \o (IF "region" \in DOMAIN item
        THEN <<" This food is popular in ", item.region, ".">> ELSE <<>>)
    \o (IF "type" \in DOMAIN item
        THEN <<" It is a type of ", item.type, ".">> ELSE <<>>)

\* C5: every record the ingestion inserts is stored under its id with its
\* original text, the embedding client having received the enriched text;
\* no document of the collection is the enriched text of a record that has
\* a region or a type.
EnrichmentNonLeak ==
    /\ \A i \in DOMAIN embedLog :
         embedLog[i] = ExpectedEmbedInput(new_items[i])
    /\ \A i \in DOMAIN addLog :
         /\ addLog[i] = new_items[i].id
         /\ \E j \in DOMAIN collection :
              /\ collection[j].id = new_items[i].id
              /\ collection[j].document = new_items[i].text
    /\ \A j \in DOMAIN collection : \A i \in DOMAIN food_data :
         DOMAIN food_data[i] # {"id", "text"}
            => collection[j].document # ExpectedEmbedInput(food_data[i])

\* The four records, with and without region and type, are all inserted.
EnrichmentNonLeakWitness ==
    /\ phase = "ingested"
    /\ Len(addLog) = 4

PipelineCalls == << "embed", "query", "generate" >>

\* C6: the client calls of an answer request are the embedding call, then
\* the query, then the generation call, each at most once; a request that
\* succeeds has made all three, a request is at the query or at the
\* generation call only after the calls before it, and a request whose
\* embedding call failed has made no other call.
StrictPipelineOrder ==
    \A t \in Threads :
        LET th == threads[t]
        IN  /\ Len(th.calls) <= 3
            /\ th.calls = SubSeq(PipelineCalls, 1, Len(th.calls))
            /\ th.pc = "done" => th.calls = PipelineCalls
            /\ th.pc = "query" => th.calls = << "embed" >>
            /\ th.pc = "generate" => th.calls = << "embed", "query" >>
            /\ th.pc = "dead" => th.calls = << "embed" >>

\* The same question was answered twice in one window, each time with the
\* three calls.
StrictPipelineOrderWitness ==
    /\ Len(output_text) = 2
    /\ output_text[1].question = output_text[2].question
    /\ threads[1].pc = "done"
    /\ threads[2].pc = "done"

\* C7: a step in which a client call of an answer request fails leaves the
\* output pane as it is, and no block of the pane comes from a request that
\* failed.
NoPartialOutput ==
    /\ [](\A i \in DOMAIN output_text :
            threads[output_text[i].thread].fail = "none")
    /\ [][\A t \in Threads :
            (threads[t].fail = "none" /\ threads'[t].fail \in FailureKinds)
               => output_text' = output_text]_vars

\* A request has lost its generation call after its sources were retrieved,
\* while the pane shows the answer of an earlier request.
NoPartialOutputWitness ==
    /\ Len(output_text) = 1
    /\ \E t \in Threads :
         /\ threads[t].fail \in FailureKinds
         /\ threads[t].calls = PipelineCalls

\* C8: no answer request is under way before the ingestion pass of the run
\* has ended, nor in a run whose ingestion was cut short; the collection is
\* written only during the ingestion pass, when no query has been issued.
IngestionPrecedesQueries ==
    /\ []((phase \in {"ingest", "ingested", "aborted", "crashed"})
            => \A t \in Threads : threads[t].pc = "idle")
    /\ [][collection' # collection
            => /\ phase = "ingest"
               /\ \A t \in Threads : threads[t].calls = <<>>]_vars

\* A query was served from a collection the run's ingestion had added to.
IngestionPrecedesQueriesWitness ==
    /\ addLog # <<>>
    /\ \E t \in Threads : threads[t].calls = PipelineCalls

\* C9: when the embedding client fails on a record, the run stops there:
\* the failed call is its last, the record is not inserted, and the
\* collection holds, unchanged, what it held before the call.
AbortWithoutRollback ==
    /\ [](phase = "aborted" =>
            /\ Len(embedLog) = Len(addLog) + 1
            /\ pos = Len(embedLog)
            /\ new_items[pos].id \notin Ids(collection)
            /\ Ids(collection) = existing_ids \cup SeqSet(addLog)
            /\ Len(collection) = Cardinality(existing_ids) + Len(addLog))
    /\ [][(phase # "aborted" /\ phase' = "aborted")
            => collection' = collection /\ addLog' = addLog]_vars
    /\ [][(phase = "aborted" /\ phase' = "aborted")
            => UNCHANGED << collection, embedLog, addLog >>]_vars

\* The embedding client failed on the third new record of a run that found
\* an entry in the collection.
AbortWithoutRollbackWitness ==
    /\ phase = "aborted"
    /\ Len(addLog) = 2
    /\ existing_ids # {}

\* C10: an answer request holds min(n, 3) sources for a collection of n
\* entries, each the id and the document of one entry of the collection,
\* and so does every block of the output pane.
QueryBounds ==
    LET n == Len(collection)
        Stored(id, doc) == \E j \in DOMAIN collection :
                              collection[j].id = id /\ collection[j].document = doc
    IN  /\ \A t \in Threads :
             threads[t].pc = "generate" =>
                LET l == threads[t].locals
                IN  /\ Len(l.top_ids) = Min(n, 3)
                    /\ Len(l.top_docs) = Min(n, 3)
                    /\ Len(l.output.sources) = Min(n, 3)
                    /\ \A i \in 1..Min(n, 3) :
                         /\ Stored(l.top_ids[i], l.top_docs[i])
                         /\ l.output.sources[i] = << l.top_ids[i], l.top_docs[i] >>
        /\ \A b \in DOMAIN output_text :
             /\ Len(output_text[b].sources) = Min(n, 3)
             /\ \A i \in 1..Min(n, 3) :
                  Stored(output_text[b].sources[i][1], output_text[b].sources[i][2])

\* A request was answered from a collection of two entries, with two
\* sources.
QueryBoundsWitness ==
    /\ Len(collection) = 2
    /\ Len(output_text) = 1
    /\ Len(output_text[1].sources) = 2

\* The texts of docs one after the other, a line break between two of them,
\* up to the n-th.
RECURSIVE ContextUpTo(_, _)
ContextUpTo(docs, n) ==
    IF n = 0 THEN <<>>
    ELSE IF n = 1 THEN docs[1]
    ELSE ContextUpTo(docs, n - 1) \o <<"\n">> \o docs[n]

\* What the prompt is to be for a question and the answer of the index.
ExpectedPrompt(question, documents) ==
    <<"Use the following context to answer the question.\n\nContext:\n">>
    \o ContextUpTo(documents, Len(documents))
    \o <<"\n\nQuestion: ">> \o question \o <<"\nAnswer:">>

\* C11: the prompt of an answer request is the instruction, then the texts of
\* the sources in the rank order in which the index returned them, none
\* dropped and none added, then the question, then the "Answer:" cue; the
\* sources the request shows are in the same order, each id with its own
\* text.
PromptShape ==
    /\ \A t \in Threads :
         threads[t].pc = "generate" =>
            LET l == threads[t].locals
                results == CollectionQuery(collection, l.q_emb, NResults)
            IN  /\ l.prompt = ExpectedPrompt(l.question, results.documents)
                /\ l.prompt[Len(l.prompt)] = "\nAnswer:"
                /\ Len(l.output.sources) = Len(results.ids)
                /\ \A r \in DOMAIN results.ids :
                     l.output.sources[r] =
                         << results.ids[r], results.documents[r] >>
    /\ \A b \in DOMAIN output_text :
         LET results == CollectionQuery(collection,
                            ServiceVector(output_text[b].question), NResults)
         IN  /\ Len(output_text[b].sources) = Len(results.ids)
             /\ \A r \in DOMAIN results.ids :
                  output_text[b].sources[r] =
                      << results.ids[r], results.documents[r] >>

\* A request is about to send its prompt with three sources out of a
\* collection of five entries, whose ranking is not the insertion order.
PromptShapeWitness ==
    /\ Len(collection) = 5
    /\ \E t \in Threads :
         /\ threads[t].pc = "generate"
         /\ Len(threads[t].locals.top_docs) = 3
         /\ threads[t].locals.top_ids # << collection[1].id, collection[2].id,
                                           collection[3].id >>


\* Whether a string is empty or made of whitespace only.
Blank(s) == \A i \in DOMAIN s : s[i] \in {" ", "\n", "\t"}

\* C12: submitting a question entry that is empty or holds whitespace only
\* starts no worker thread, makes no call of the embedding client, of the
\* index or of the generation client, and leaves the Ask button, the
\* output pane and the other widgets as they are; a worker thread starts
\* only on an entry that is not blank.
EmptyQuestionGuard ==
    /\ [][(phase = "gui" /\ events' # events /\ Blank(question_entry))
            => UNCHANGED << threads, collection, embedLog, addLog, ask_btn,
                            output_text, status_label, question_entry >>]_vars
    /\ [][\A t \in Threads :
            (threads[t].pc = "idle" /\ threads'[t].pc # "idle")
               => ~Blank(question_entry)]_vars

\* In the first run of the script an entry of two spaces was submitted
\* twice: no thread has started and the Ask button is enabled.
EmptyQuestionGuardWitness ==
    /\ phase = "gui"
    /\ cutRuns = 0
    /\ ~priorDone
    /\ events = 3
    /\ question_entry = << " ", " " >>
    /\ \A t \in Threads : threads[t].pc = "idle"
    /\ ask_btn = "normal"


\* C13: a step of a worker thread that is processing a question modifies no
\* widget (question entry, Ask button, status label, output pane) and
\* opens no error dialog: those are left to the main thread.
UiOnMainThread ==
    [][\A t \in Threads :
         (Running(t) /\ threads'[t] # threads[t])
            => /\ UNCHANGED widgetVars
               /\ threads'[t].dialog = threads[t].dialog]_vars


\* C14: at most one worker thread is processing a question at any time,
\* whatever the user does: no thread is started, by a click on Ask or by
\* Return in the question entry, while an earlier one is still running.
OneRequestInFlight ==
    Cardinality({ t \in Threads : Running(t) }) <= 1


\* C15: a run of the script builds one window only: when the user has
\* closed it, no second window exists and no question is taken any more.
SingleShellLifecycle ==
    /\ window \in {0, 1}
    /\ \A t \in Threads : threads[t].win \in {0, 1}
=============================================================================
